---- MODULE Spec2Model ----
(***************************************************************************)
(* Model of the telemetry relay hub (server/): the connection registry     *)
(* (services/websocket_manager.py), the telemetry buffer                   *)
(* (services/storage.py, database/db.py) and the socket session handlers   *)
(* (routes/websockets.py), under asyncio's cooperative scheduling: one     *)
(* action is one run of a coroutine from a resumption to its next await.   *)
(***************************************************************************)
EXTENDS Integers, Sequences, FiniteSets, TLC

\* ---------------------------------------------------------------- bounds
NumWs == 3          \* connections made to /ws
NumDash == 2        \* connections made to /ws-dashboard
MaxEvents == 2      \* add_sensor_data calls in a run of every session
MaxBufEvents == 4   \* add_sensor_data calls in a run of the buffer's producer
MaxCount == 2       \* largest count asked of GET /data/latest
NumMic == 1         \* connections made to /ws-microphone
MaxFrames == 2      \* binary frames a /ws-microphone session receives in a run
MaxStream == 11     \* binary frames of a run that streams audio

\* config.settings values (the settings module is not part of src/)
LATEST_DATA_MAX_SIZE == 2
SQLITE_BUFFER_SIZE == 2
DASHBOARD_INITIAL_DATA_COUNT == 1

WsConns == 1..NumWs
DashConns == (NumWs + 1)..(NumWs + NumDash)
MicConns == (NumWs + NumDash + 1)..(NumWs + NumDash + NumMic)
Conns == WsConns \cup DashConns \cup MicConns
\* The sessions that take frames in: /ws and /ws-microphone.
Sources == WsConns \cup MicConns
None == 0

\* ---------------------------------------------------------------- frames
\* The source value that names the audio client.
AudioTag == "laptop_microphone"

\* A text frame, by what json.loads and the handler read of it.
TextFrames ==
    {[json |-> "bad", request |-> FALSE, source |-> "absent"],
     [json |-> "nonobj", request |-> FALSE, source |-> "absent"]}
    \cup [json : {"obj"}, request : BOOLEAN,
          source : {"absent", AudioTag, "other"}]

\* (mutant) every text is taken for JSON
ParsesAnything(f) == TRUE

\* Whether json.loads(data) returns (it raises JSONDecodeError otherwise).
Parses(f) == f.json # "bad"

\* A binary frame, by its length class and its type byte.
BinaryFrames == {"short", "audio", "othertype"}

VARIABLES
    st,                     \* per connection: position of its session coroutine
    is_arduino_connection,  \* per /ws session: the local of that name
    arduino_connection,     \* websocket_manager.arduino_connection
    active_connections,     \* websocket_manager.active_connections
    bc,                     \* per /ws session: its running broadcast_to_dashboards
    fwdTarget,              \* per /ws session: the socket its pending send_bytes goes to
    latest_data,            \* storage.latest_data
    sqlite_buffer,          \* storage.sqlite_buffer
    total,                  \* events handed to add_sensor_data so far
    flush_tasks,            \* flush_sqlite_buffer tasks created and not yet run
    saving,                 \* batches inside save_sensor_data_batch
    db,                     \* rows of sensor_data, in insertion order
    failed,                 \* history: the batches whose write raised
    everReg,                \* history: sockets ever registered as device
    lastReg,                \* history: the socket registered as device last
    jsonSeen,               \* history: per /ws session, a JSON object frame was handled
    resp,                   \* last answer of GET /data/latest, with the count asked
    hb,                     \* per session: its heartbeat task
    binary_count,           \* per /ws-microphone session: the local of that name
    tasks,                  \* the broadcast tasks made by create_task, not yet ended
    forwarded,              \* what send_binary_to_arduino returned last (forwarded)
    fwdData,                \* per session: the frame its pending send carries
    received,               \* per /ws socket: the frame the hub sent it last
    unsampled,              \* history: per session, an audio frame got no summary event
    miscounted,             \* history: binary_count counts a frame that is not audio
    first,                  \* history: per session, the first frame the hub sent it
    inbox                   \* history: per watched dashboard, the messages sent to it

vars == <<st, is_arduino_connection, arduino_connection, active_connections, bc,
          fwdTarget, latest_data, sqlite_buffer, total, flush_tasks, saving, db,
          failed, everReg, lastReg, jsonSeen, resp, hb, binary_count, tasks,
          forwarded, fwdData, received, unsampled, miscounted, first, inbox>>

regVars == <<is_arduino_connection, arduino_connection, everReg, lastReg, jsonSeen>>
bufVars == <<latest_data, sqlite_buffer, total, flush_tasks>>
dbVars == <<saving, db, failed>>
fwdVars == <<forwarded, fwdData, received>>
relayVars == <<hb, binary_count, tasks, fwdVars, unsampled, miscounted, first>>

\* app.startup_event: init_db, and nothing else; no task is created, so no
\* flush runs unless add_sensor_data creates its task.
startup_event ==
    /\ db = <<>>
    /\ flush_tasks = 0

\* No broadcast running.
NoBc ==
    [start |-> {}, visited |-> {}, disconnected |-> {}, cur |-> None, msg |-> 0]

\* The hub once the application is constructed and started.
Started ==
    /\ st = [c \in Conns |-> "idle"]
    /\ is_arduino_connection = [c \in WsConns |-> "None"]
    /\ arduino_connection = None
    /\ active_connections = {}
    /\ bc = [c \in WsConns |-> NoBc]
    /\ fwdTarget = [c \in Sources |-> None]
    /\ latest_data = <<>>
    /\ sqlite_buffer = <<>>
    /\ total = 0
    /\ startup_event
    /\ saving = {}
    /\ failed = {}
    /\ everReg = {}
    /\ lastReg = None
    /\ jsonSeen = [c \in WsConns |-> FALSE]
    /\ resp = [count |-> 0, data |-> <<>>]
    /\ hb = [c \in Conns |-> "none"]
    /\ binary_count = [m \in MicConns |-> 0]
    /\ tasks = {}
    /\ forwarded = "None"
    /\ fwdData = [c \in Sources |-> "none"]
    /\ received = [c \in WsConns |-> "none"]
    /\ unsampled = [c \in Sources |-> FALSE]
    /\ miscounted = [m \in MicConns |-> FALSE]
    /\ first = [c \in Sources |-> "none"]

\* No dashboard's messages are recorded.
Init == Started /\ inbox = [d \in {} |-> <<>>]

\* The messages sent to every dashboard are recorded.
InitWatch == Started /\ inbox = [d \in DashConns |-> <<>>]

\* ------------------------------------------------- websocket_manager.py
set_arduino_connection(websocket) == arduino_connection' = websocket

add_connection(websocket) == active_connections \cup {websocket}

remove_connection(websocket) == active_connections \ {websocket}

\* ------------------------------------------------------------ storage.py
Min(a, b) == IF a < b THEN a ELSE b

\* (mutant) the deque evicts only once it is over its capacity
DequeAppendLate(dq, x) ==
    IF Len(dq) > LATEST_DATA_MAX_SIZE THEN Append(Tail(dq), x) ELSE Append(dq, x)

\* deque(maxlen=LATEST_DATA_MAX_SIZE).append
DequeAppend(dq, x) ==
    IF LATEST_DATA_MAX_SIZE = 0 THEN dq
    ELSE IF Len(dq) >= LATEST_DATA_MAX_SIZE THEN Append(Tail(dq), x)
    ELSE Append(dq, x)

\* (mutant) the oldest elements are taken
SliceFirst(lst, count) == SubSeq(lst, 1, Min(count, Len(lst)))

\* lst[-count:] as Python slices
SliceLast(lst, count) ==
    LET n == Len(lst)
        from == IF count > 0 THEN (IF count >= n THEN 0 ELSE n - count)
                ELSE Min(0 - count, n)
    IN SubSeq(lst, from + 1, n)

get_latest_data(count) == SliceLast(latest_data, count)

\* (mutant) the flush is asked for only once the buffer is over its size
BufferOverfull(n) == n > SQLITE_BUFFER_SIZE

\* len(sqlite_buffer) >= SQLITE_BUFFER_SIZE, for a buffer of n events.
BufferFull(n) == n >= SQLITE_BUFFER_SIZE

\* add_sensor_data(data): the deque, the buffer, the threshold's task
add_sensor_data(data) ==
    /\ latest_data' = DequeAppend(latest_data, data)
    /\ sqlite_buffer' = Append(sqlite_buffer, data)
    /\ total' = total + 1
    /\ flush_tasks' = IF BufferFull(Len(sqlite_buffer) + 1)
                      THEN flush_tasks + 1 ELSE flush_tasks

\* The event a handler builds: the receipt number stands for its timestamp.
\* Its client field is the peer's host address, which names no connection
\* (every socket of one host carries the same one) and is left out.
Event(c, source) == [id |-> total + 1, source |-> source]


\* json.dumps(data_json) of the event of receipt number id, made by the
\* session of c: the message a broadcast carries.
Update(c, id) == [type |-> "update", from |-> c, data |-> <<id>>]

\* The inboxes once send_text(msg) is called on the socket of dashboard d.
Posted(d, msg) ==
    IF d \in DOMAIN inbox THEN [inbox EXCEPT ![d] = Append(@, msg)] ELSE inbox

\* broadcast_to_dashboards, from its call to its first await: the iterator is
\* made over the live set, and the first send_text is begun.  With no
\* dashboard the loop body never runs and the coroutine returns at once.
BroadcastStart(c) ==
    IF active_connections = {}
    THEN /\ st' = [st EXCEPT ![c] = "recv"]
         /\ bc' = [bc EXCEPT ![c] = NoBc]
         /\ UNCHANGED inbox
    ELSE \E d \in active_connections :
         /\ st' = [st EXCEPT ![c] = "bcast"]
         /\ bc' = [bc EXCEPT ![c] = [start |-> active_connections, visited |-> {d},
                                     disconnected |-> {}, cur |-> d,
                                     msg |-> total + 1]]
         /\ inbox' = Posted(d, Update(c, total + 1))

\* Whether a send to socket d can succeed: never once its session is over.
CanSucceed(d) == st[d] \notin {"idle", "closed"}

\* What the loop holds in `disconnected` after the send to cur ended.
Disconnected(b, ok) ==
    IF ok THEN b.disconnected ELSE b.disconnected \cup {b.cur}

\* The set iterator's check at each next(): the set's size against its size
\* when the iterator was made.
SetChangedSize(b) == Cardinality(active_connections) # Cardinality(b.start)

\* active_connections.difference_update(disconnected)
DifferenceUpdate(disc) == active_connections \ disc

\* broadcast_to_dashboards of /ws session c, resumed when its send_text to
\* bc[c].cur ends (ok or raising), up to the next await or to its return.  A
\* RuntimeError of the iterator leaves the coroutine and the handler's loop.
BroadcastStep(c) ==
    /\ c \in WsConns
    /\ st[c] = "bcast"
    /\ \E ok \in BOOLEAN :
        /\ ok => CanSucceed(bc[c].cur)
        /\ LET disc == Disconnected(bc[c], ok)
               cand == active_connections \ bc[c].visited
           IN IF SetChangedSize(bc[c])
              THEN /\ st' = [st EXCEPT ![c] = "closing_exc"]
                   /\ bc' = [bc EXCEPT ![c] = NoBc]
                   /\ UNCHANGED <<active_connections, inbox>>
              ELSE \/ \E d \in cand :
                        /\ bc' = [bc EXCEPT ![c] = [@ EXCEPT !.visited = @ \cup {d},
                                                            !.disconnected = disc,
                                                            !.cur = d]]
                        /\ inbox' = Posted(d, Update(c, bc[c].msg))
                        /\ UNCHANGED <<st, active_connections>>
                   \/ /\ cand \cap bc[c].start = {}
                      /\ active_connections' = DifferenceUpdate(disc)
                      /\ st' = [st EXCEPT ![c] = "recv"]
                      /\ bc' = [bc EXCEPT ![c] = NoBc]
                      /\ UNCHANGED inbox
    /\ UNCHANGED <<regVars, fwdTarget, bufVars, dbVars, resp,
                   relayVars>>

\* ------------------------------------------------- websockets.py: /ws
\* The value of is_arduino_connection after a JSON object frame.
Classify(cur, f) ==
    IF f.source = AudioTag THEN "False"
    ELSE IF cur = "None" THEN "True" ELSE cur

\* (mutant) the first frame registers its socket whatever its source
RegistersAnySource(cur, f) == cur = "None"

\* (mutant) every connection that is not the device yet is registered
RegistersUnlessDevice(cur, f) == f.source # AudioTag /\ cur # "True"

\* Whether the frame makes the handler call set_arduino_connection(websocket).
Registers(cur, f) == f.source # AudioTag /\ cur = "None"

\* data_json["source"] as stored and broadcast.
EventSource(f) ==
    IF f.source = AudioTag THEN AudioTag ELSE "arduino"

\* Whether the frame is the device's request that the handler skips.
IsAudioRequest(f) == f.request

\* (mutant) the first message sent is a heartbeat
WelcomeAsHeartbeat == "heartbeat"

\* The message both handlers send once accept returned: its status field.
Welcome == "connected"

\* The first frame each socket was sent, after a send of frame to socket c
\* is begun.
FirstSent(c, frame) ==
    IF first[c] = "none" THEN [first EXCEPT ![c] = frame] ELSE first

\* accept and the welcome send_text succeed; the heartbeat task is created.
WsConnect(c) ==
    /\ c \in WsConns
    /\ st[c] = "idle"
    /\ st' = [st EXCEPT ![c] = "recv"]
    /\ first' = FirstSent(c, Welcome)
    /\ hb' = [hb EXCEPT ![c] = "sleep"]
    /\ UNCHANGED <<regVars, active_connections, bc, fwdTarget, bufVars, dbVars, resp,
                   binary_count, tasks, fwdVars, unsampled, miscounted, inbox>>

\* accept or the welcome send_text raises: the outer except clauses run.
WsConnectFail(c) ==
    /\ c \in WsConns
    /\ st[c] = "idle"
    /\ st' = [st EXCEPT ![c] = "closed"]
    /\ set_arduino_connection(None)
    /\ UNCHANGED <<is_arduino_connection, everReg, lastReg, jsonSeen,
                   active_connections, bc, fwdTarget, bufVars, dbVars, resp,
                   relayVars, inbox>>

\* One text frame f received by /ws session c (cap: the events a run adds).
WsText(c, f, cap) ==
    /\ c \in WsConns
    /\ st[c] = "recv"
    /\ f \in TextFrames
    /\ CASE ~Parses(f) ->
              \* json.JSONDecodeError: logged, the loop goes on
              UNCHANGED vars
         [] f.json = "nonobj" ->
              \* data_json.get raises AttributeError: the loop is left
              /\ st' = [st EXCEPT ![c] = "closing_exc"]
              /\ UNCHANGED <<regVars, active_connections, bc, fwdTarget, bufVars,
                             dbVars, resp, relayVars, inbox>>
         [] f.json = "obj" /\ IsAudioRequest(f) ->
              \* logged, then continue
              /\ jsonSeen' = [jsonSeen EXCEPT ![c] = TRUE]
              /\ UNCHANGED <<st, is_arduino_connection, arduino_connection, everReg,
                             lastReg, active_connections, bc, fwdTarget, bufVars,
                             dbVars, resp, relayVars, inbox>>
         [] OTHER ->
              /\ total < cap
              /\ jsonSeen' = [jsonSeen EXCEPT ![c] = TRUE]
              /\ is_arduino_connection' =
                    [is_arduino_connection EXCEPT ![c] = Classify(@, f)]
              /\ IF Registers(is_arduino_connection[c], f)
                 THEN /\ set_arduino_connection(c)
                      /\ everReg' = everReg \cup {c}
                      /\ lastReg' = c
                 ELSE UNCHANGED <<arduino_connection, everReg, lastReg>>
              /\ add_sensor_data(Event(c, EventSource(f)))
              /\ BroadcastStart(c)
              /\ UNCHANGED <<active_connections, fwdTarget, dbVars, resp, relayVars>>

\* send_binary_to_arduino, to its await: FALSE at once with no device.
ForwardTarget == arduino_connection

\* (mutant) a send that raised is reported as done
SendResultOptimistic(target, ok) == IF target # None THEN "True" ELSE "False"

\* What send_binary_to_arduino returns: ok is whether send_bytes returned
\* (anything it raises, a cancellation included, is caught).
SendResult(target, ok) == IF target # None /\ ok THEN "True" ELSE "False"

\* (mutant) only the header is sent on
PayloadHeaderOnly(data) == "header"

\* What send_bytes(data) and send_text(message) put on the wire: their
\* argument, the frame as it was received.
Payload(data) == data

\* The frames the peer of each /ws socket got last, after a send to target.
Delivered(target, data, ok) ==
    IF ok THEN [received EXCEPT ![target] = Payload(data)] ELSE received

\* The summary event of a binary frame, stored and broadcast.
WsAudioEvent(c, cap) ==
    /\ total < cap
    /\ add_sensor_data(Event(c, AudioTag))
    /\ BroadcastStart(c)

\* One binary frame received by /ws session c.
WsBinary(c, f, cap) ==
    /\ c \in WsConns
    /\ st[c] = "recv"
    /\ f \in BinaryFrames
    /\ IF f # "audio"
       THEN UNCHANGED vars
       ELSE IF ForwardTarget = None
            THEN /\ forwarded' = SendResult(None, FALSE)
                 /\ WsAudioEvent(c, cap)
                 /\ UNCHANGED <<regVars, active_connections, fwdTarget, dbVars, resp,
                                hb, binary_count, tasks, fwdData, received,
                                unsampled, miscounted, first>>
            ELSE /\ total < cap
                 /\ st' = [st EXCEPT ![c] = "fwd"]
                 /\ fwdTarget' = [fwdTarget EXCEPT ![c] = ForwardTarget]
                 /\ fwdData' = [fwdData EXCEPT ![c] = f]
                 /\ first' = FirstSent(ForwardTarget, f)
                 /\ UNCHANGED <<regVars, active_connections, bc, bufVars, dbVars, resp,
                                hb, binary_count, tasks, forwarded, received,
                                unsampled, miscounted, inbox>>

\* The send_bytes of session c ends, returning (ok) or raising; the handler
\* logs a warning when forwarded is false and goes on to the summary event.
WsForwardDone(c, cap) ==
    /\ c \in WsConns
    /\ st[c] = "fwd"
    /\ \E ok \in BOOLEAN :
          /\ ok => CanSucceed(fwdTarget[c])
          /\ received' = Delivered(fwdTarget[c], fwdData[c], ok)
          /\ forwarded' = SendResult(fwdTarget[c], ok)
    /\ fwdTarget' = [fwdTarget EXCEPT ![c] = None]
    /\ fwdData' = [fwdData EXCEPT ![c] = "none"]
    /\ WsAudioEvent(c, cap)
    /\ UNCHANGED <<regVars, active_connections, dbVars, resp, hb, binary_count, tasks,
                   unsampled, miscounted, first>>

\* receive() returns websocket.disconnect: break, into the finally block.
WsDisconnect(c) ==
    /\ c \in WsConns
    /\ st[c] = "recv"
    /\ st' = [st EXCEPT ![c] = "closing"]
    /\ UNCHANGED <<regVars, active_connections, bc, fwdTarget, bufVars, dbVars, resp,
                   relayVars, inbox>>

\* receive() raises (transport error): into finally, then an except clause.
WsReceiveError(c) ==
    /\ c \in WsConns
    /\ st[c] = "recv"
    /\ st' = [st EXCEPT ![c] = "closing_exc"]
    /\ UNCHANGED <<regVars, active_connections, bc, fwdTarget, bufVars, dbVars, resp,
                   relayVars, inbox>>

\* The session task is cancelled while it awaits receive(): CancelledError
\* passes the finally block and none of the except clauses.  (Cancelled inside
\* a send of the registry, it is caught by that send's bare except, which is
\* the failed send of WsForwardDone and BroadcastStep.)
WsCancel(c) ==
    /\ c \in WsConns
    /\ st[c] = "recv"
    /\ st' = [st EXCEPT ![c] = "closing"]
    /\ UNCHANGED <<regVars, active_connections, bc, fwdTarget, bufVars, dbVars, resp,
                   relayVars, inbox>>

\* Whether leaving the handler clears the device slot: the finally block's
\* test of is_arduino_connection, and the except clauses that always clear.
ClearsOnExit(isArd, raised) == isArd = "True" \/ raised

\* The rest of the finally block once the cancelled heartbeat task is
\* awaited, and the except clause of a propagating exception.
WsFinally(c) ==
    /\ c \in WsConns
    /\ st[c] \in {"closing", "closing_exc"}
    /\ st' = [st EXCEPT ![c] = "closed"]
    /\ IF ClearsOnExit(is_arduino_connection[c], st[c] = "closing_exc")
       THEN set_arduino_connection(None)
       ELSE UNCHANGED arduino_connection
    /\ hb' = [hb EXCEPT ![c] = "done"]
    /\ UNCHANGED <<is_arduino_connection, everReg, lastReg, jsonSeen,
                   active_connections, bc, fwdTarget, bufVars, dbVars, resp,
                   binary_count, tasks, fwdVars, unsampled, miscounted, first, inbox>>

\* ------------------------------------ websockets.py: the heartbeat tasks
\* Whether the session of c has left its receive loop (its finally block has
\* asked its heartbeat task to stop) or never entered it.
Leaving(c) == st[c] \in {"idle", "closing", "closing_exc", "closed"}

\* asyncio.sleep(30) of the heartbeat task of c ends: its send_text begins.
HbWake(c) ==
    /\ c \in Sources
    /\ hb[c] = "sleep"
    /\ ~Leaving(c)
    /\ hb' = [hb EXCEPT ![c] = "send"]
    /\ first' = FirstSent(c, "heartbeat")
    /\ UNCHANGED <<st, regVars, active_connections, bc, fwdTarget, bufVars, dbVars,
                   resp, binary_count, tasks, fwdVars, unsampled, miscounted, inbox>>

\* The heartbeat's send_text ends: the next sleep, or (raising) break.
HbSent(c, ok) ==
    /\ c \in Sources
    /\ hb[c] = "send"
    /\ ~Leaving(c)
    /\ hb' = [hb EXCEPT ![c] = IF ok THEN "sleep" ELSE "done"]
    /\ UNCHANGED <<st, regVars, active_connections, bc, fwdTarget, bufVars, dbVars,
                   resp, binary_count, tasks, fwdVars, unsampled, miscounted, first,
                   inbox>>

\* ------------------------------------ websockets.py: /ws-microphone
\* The handler makes a summary event of every SummaryEvery-th binary frame.
SummaryEvery == 10

\* accept and the welcome send_text succeed; the heartbeat task is created
\* and binary_count is 0.
MicConnect(m) ==
    /\ m \in MicConns
    /\ st[m] = "idle"
    /\ st' = [st EXCEPT ![m] = "recv"]
    /\ hb' = [hb EXCEPT ![m] = "sleep"]
    /\ binary_count' = [binary_count EXCEPT ![m] = 0]
    /\ first' = FirstSent(m, Welcome)
    /\ UNCHANGED <<regVars, active_connections, bc, fwdTarget, bufVars, dbVars, resp,
                   tasks, fwdVars, unsampled, miscounted, inbox>>

\* accept or the welcome send_text raises: an outer except clause logs it.
MicConnectFail(m) ==
    /\ m \in MicConns
    /\ st[m] = "idle"
    /\ st' = [st EXCEPT ![m] = "closed"]
    /\ UNCHANGED <<regVars, active_connections, bc, fwdTarget, bufVars, dbVars, resp,
                   relayVars, inbox>>

\* A broadcast_to_dashboards task as asyncio.create_task leaves it: made for
\* the event just added, not yet run.
NewTask(m) == [id |-> total + 1, owner |-> m, b |-> NoBc]

\* Whether the handler makes a summary event of frame f, its n-th binary
\* frame: the header is there, and n is a multiple of SummaryEvery.
MicSummarises(f, n) == f # "short" /\ n % SummaryEvery = 0

\* The rest of the binary branch once send_binary_to_arduino returned.
MicSummary(m, f, n, cap) ==
    IF MicSummarises(f, n)
    THEN /\ total < cap
         /\ add_sensor_data(Event(m, AudioTag))
         /\ tasks' = tasks \cup {NewTask(m)}
         /\ UNCHANGED unsampled
    ELSE /\ unsampled' = [unsampled EXCEPT ![m] = @ \/ f = "audio"]
         /\ UNCHANGED <<bufVars, tasks>>

\* One binary frame received by /ws-microphone session m (fcap: the binary
\* frames a run receives): counted, and forwarded before its length is read.
MicBinary(m, f, cap, fcap) ==
    /\ m \in MicConns
    /\ st[m] = "recv"
    /\ f \in BinaryFrames
    /\ binary_count[m] < fcap
    /\ binary_count' = [binary_count EXCEPT ![m] = @ + 1]
    /\ miscounted' = [miscounted EXCEPT ![m] = @ \/ f # "audio"]
    /\ IF ForwardTarget = None
       THEN /\ forwarded' = SendResult(None, FALSE)
            /\ MicSummary(m, f, binary_count[m] + 1, cap)
            /\ UNCHANGED <<st, fwdTarget, fwdData, received, first>>
       ELSE /\ st' = [st EXCEPT ![m] = "fwd"]
            /\ fwdTarget' = [fwdTarget EXCEPT ![m] = ForwardTarget]
            /\ fwdData' = [fwdData EXCEPT ![m] = f]
            /\ first' = FirstSent(ForwardTarget, f)
            /\ UNCHANGED <<bufVars, tasks, forwarded, received, unsampled>>
    /\ UNCHANGED <<regVars, active_connections, bc, dbVars, resp, hb, inbox>>

\* The send_bytes of session m ends, returning (ok) or raising.
MicForwardDone(m, cap) ==
    /\ m \in MicConns
    /\ st[m] = "fwd"
    /\ \E ok \in BOOLEAN :
          /\ ok => CanSucceed(fwdTarget[m])
          /\ received' = Delivered(fwdTarget[m], fwdData[m], ok)
          /\ forwarded' = SendResult(fwdTarget[m], ok)
    /\ fwdTarget' = [fwdTarget EXCEPT ![m] = None]
    /\ fwdData' = [fwdData EXCEPT ![m] = "none"]
    /\ st' = [st EXCEPT ![m] = "recv"]
    /\ MicSummary(m, fwdData[m], binary_count[m], cap)
    /\ UNCHANGED <<regVars, active_connections, bc, dbVars, resp, hb, binary_count,
                   miscounted, first, inbox>>

\* One text frame received by /ws-microphone session m.
MicText(m, f, cap) ==
    /\ m \in MicConns
    /\ st[m] = "recv"
    /\ f \in TextFrames
    /\ CASE ~Parses(f) ->
              \* json.JSONDecodeError: logged, continue
              UNCHANGED vars
         [] f.json = "nonobj" ->
              \* data_json["timestamp"] = ... raises TypeError: the loop is left
              /\ st' = [st EXCEPT ![m] = "closing"]
              /\ UNCHANGED <<regVars, active_connections, bc, fwdTarget, bufVars,
                             dbVars, resp, relayVars, inbox>>
         [] OTHER ->
              /\ total < cap
              /\ add_sensor_data(Event(m, AudioTag))
              /\ tasks' = tasks \cup {NewTask(m)}
              /\ IF ForwardTarget = None
                 THEN UNCHANGED <<st, fwdTarget, fwdData, first>>
                 ELSE /\ st' = [st EXCEPT ![m] = "fwdtext"]
                      /\ fwdTarget' = [fwdTarget EXCEPT ![m] = ForwardTarget]
                      /\ fwdData' = [fwdData EXCEPT ![m] = "text"]
                      /\ first' = FirstSent(ForwardTarget, "text")
              /\ UNCHANGED <<regVars, active_connections, bc, dbVars, resp, hb,
                             binary_count, forwarded, received, unsampled, miscounted,
                             inbox>>

\* The send_text of send_to_arduino ends; its result is not read.
MicTextForwardDone(m) ==
    /\ m \in MicConns
    /\ st[m] = "fwdtext"
    /\ \E ok \in BOOLEAN :
          /\ ok => CanSucceed(fwdTarget[m])
          /\ received' = Delivered(fwdTarget[m], fwdData[m], ok)
    /\ fwdTarget' = [fwdTarget EXCEPT ![m] = None]
    /\ fwdData' = [fwdData EXCEPT ![m] = "none"]
    /\ st' = [st EXCEPT ![m] = "recv"]
    /\ UNCHANGED <<regVars, active_connections, bc, bufVars, dbVars, resp, hb,
                   binary_count, tasks, forwarded, unsampled, miscounted, first, inbox>>

\* wait_for(receive(), 60) times out: the heartbeat send_text begins.
MicTimeout(m) ==
    /\ m \in MicConns
    /\ st[m] = "recv"
    /\ st' = [st EXCEPT ![m] = "probe"]
    /\ first' = FirstSent(m, "heartbeat")
    /\ UNCHANGED <<regVars, active_connections, bc, fwdTarget, bufVars, dbVars, resp,
                   hb, binary_count, tasks, fwdVars, unsampled, miscounted, inbox>>

\* (mutant) the idle session is closed once probed
ProbeOutcomeClose(ok) == "closing"

\* Where the timeout branch goes once its send_text ended: on with the loop,
\* or (it raised) break.
ProbeOutcome(ok) == IF ok THEN "recv" ELSE "closing"

\* The send_text of the timeout branch ends.
MicProbeDone(m, ok) ==
    /\ m \in MicConns
    /\ st[m] = "probe"
    /\ st' = [st EXCEPT ![m] = ProbeOutcome(ok)]
    /\ UNCHANGED <<regVars, active_connections, bc, fwdTarget, bufVars, dbVars, resp,
                   relayVars, inbox>>

\* receive() returns websocket.disconnect: break, into the finally block.
MicDisconnect(m) ==
    /\ m \in MicConns
    /\ st[m] = "recv"
    /\ st' = [st EXCEPT ![m] = "closing"]
    /\ UNCHANGED <<regVars, active_connections, bc, fwdTarget, bufVars, dbVars, resp,
                   relayVars, inbox>>

\* receive() raises, or the session task is cancelled while it waits: into
\* the finally block, then an except clause that only logs (or none).
MicReceiveError(m) ==
    /\ m \in MicConns
    /\ st[m] = "recv"
    /\ st' = [st EXCEPT ![m] = "closing"]
    /\ UNCHANGED <<regVars, active_connections, bc, fwdTarget, bufVars, dbVars, resp,
                   relayVars, inbox>>

\* The rest of the finally block once the cancelled heartbeat task is awaited.
MicFinally(m) ==
    /\ m \in MicConns
    /\ st[m] = "closing"
    /\ st' = [st EXCEPT ![m] = "closed"]
    /\ hb' = [hb EXCEPT ![m] = "done"]
    /\ UNCHANGED <<regVars, active_connections, bc, fwdTarget, bufVars, dbVars, resp,
                   binary_count, tasks, fwdVars, unsampled, miscounted, first, inbox>>

\* -------------------------- websocket_manager.py: the broadcast tasks
\* (mutant) the event loop runs the waiting tasks in any order
RunnableAny(t) == TRUE

\* Whether the event loop runs task t next of the tasks not yet run: tasks
\* are first run in the order create_task made them.
Runnable(t) == \A u \in tasks : u.b.cur = None => u.id >= t.id

\* A task made by create_task runs broadcast_to_dashboards to its first
\* await; with no dashboard it ends at once.
TaskStart(t) ==
    /\ t \in tasks
    /\ t.b.cur = None
    /\ Runnable(t)
    /\ IF active_connections = {}
       THEN /\ tasks' = tasks \ {t}
            /\ UNCHANGED inbox
       ELSE \E d \in active_connections :
              /\ tasks' = (tasks \ {t}) \cup
                          {[t EXCEPT !.b = [start |-> active_connections,
                                            visited |-> {d},
                                            disconnected |-> {}, cur |-> d,
                                            msg |-> t.id]]}
              /\ inbox' = Posted(d, Update(t.owner, t.id))
    /\ UNCHANGED <<st, regVars, active_connections, bc, fwdTarget, bufVars, dbVars,
                   resp, hb, binary_count, fwdVars, unsampled, miscounted, first>>

\* The task is resumed when its send_text ends: the next send, its return,
\* or the iterator's RuntimeError, which ends the task and nothing else.
TaskStep(t) ==
    /\ t \in tasks
    /\ t.b.cur # None
    /\ \E ok \in BOOLEAN :
        /\ ok => CanSucceed(t.b.cur)
        /\ LET disc == Disconnected(t.b, ok)
               cand == active_connections \ t.b.visited
           IN IF SetChangedSize(t.b)
              THEN /\ tasks' = tasks \ {t}
                   /\ UNCHANGED <<active_connections, inbox>>
              ELSE \/ \E d \in cand :
                        /\ tasks' = (tasks \ {t}) \cup
                                    {[t EXCEPT !.b = [@ EXCEPT !.visited = @ \cup {d},
                                                               !.disconnected = disc,
                                                               !.cur = d]]}
                        /\ inbox' = Posted(d, Update(t.owner, t.id))
                        /\ UNCHANGED active_connections
                   \/ /\ cand \cap t.b.start = {}
                      /\ active_connections' = DifferenceUpdate(disc)
                      /\ tasks' = tasks \ {t}
                      /\ UNCHANGED inbox
    /\ UNCHANGED <<st, regVars, bc, fwdTarget, bufVars, dbVars, resp, hb,
                   binary_count, fwdVars, unsampled, miscounted, first>>

\* ---------------------------------------- websockets.py: /ws-dashboard
\* The events of a list, each named by its receipt number.
Ids(events) == [k \in DOMAIN events |-> events[k].id]

\* The initial_data message: {"type": "initial_data", "data": latest}.
InitialData(latest) == [type |-> "initial_data", from |-> None, data |-> Ids(latest)]

\* accept, add_connection, and the initial_data send_text begun when
\* get_latest_data returned something.
DashConnect(d) ==
    /\ d \in DashConns
    /\ st[d] = "idle"
    /\ active_connections' = add_connection(d)
    /\ LET latest == get_latest_data(DASHBOARD_INITIAL_DATA_COUNT)
       IN IF latest # <<>>
          THEN /\ st' = [st EXCEPT ![d] = "init"]
               /\ inbox' = Posted(d, InitialData(latest))
          ELSE /\ st' = [st EXCEPT ![d] = "recv"]
               /\ UNCHANGED inbox
    /\ UNCHANGED <<regVars, bc, fwdTarget, bufVars, dbVars, resp,
                   relayVars>>

\* accept raises: the except clause, then finally's remove_connection.
DashConnectFail(d) ==
    /\ d \in DashConns
    /\ st[d] = "idle"
    /\ active_connections' = remove_connection(d)
    /\ st' = [st EXCEPT ![d] = "closed"]
    /\ UNCHANGED <<regVars, bc, fwdTarget, bufVars, dbVars, resp,
                   relayVars, inbox>>

\* The initial_data send_text ends: the receive loop, or (raising, or
\* cancelled) the finally block.
DashInitDone(d, ok) ==
    /\ d \in DashConns
    /\ st[d] = "init"
    /\ IF ok
       THEN /\ st' = [st EXCEPT ![d] = "recv"]
            /\ UNCHANGED active_connections
       ELSE /\ st' = [st EXCEPT ![d] = "closed"]
            /\ active_connections' = remove_connection(d)
    /\ UNCHANGED <<regVars, bc, fwdTarget, bufVars, dbVars, resp,
                   relayVars, inbox>>

\* A text frame from the dashboard: logged only.
DashText(d) ==
    /\ d \in DashConns
    /\ st[d] = "recv"
    /\ UNCHANGED vars

\* receive_text raises (disconnect, error) or the task is cancelled: finally.
DashClose(d) ==
    /\ d \in DashConns
    /\ st[d] = "recv"
    /\ st' = [st EXCEPT ![d] = "closed"]
    /\ active_connections' = remove_connection(d)
    /\ UNCHANGED <<regVars, bc, fwdTarget, bufVars, dbVars, resp,
                   relayVars, inbox>>

\* ------------------------------------------------- storage.py: flushing
\* (mutant) the buffer is not cleared after the copy
BufferKept(buf) == buf

\* What flush_sqlite_buffer leaves in sqlite_buffer (copy, then clear).
BufferAfterCapture(buf) == <<>>

\* (mutant) the copy misses the newest event
BufferCopyButLast(buf) == SubSeq(buf, 1, Len(buf) - 1)

\* What flush_sqlite_buffer hands to save_sensor_data_batch (buffer_copy).
BufferCopy(buf) == buf

\* A flush_sqlite_buffer task runs, from its start to the first await inside
\* save_sensor_data_batch; with an empty buffer it returns at once.
FlushRun ==
    /\ flush_tasks > 0
    /\ flush_tasks' = flush_tasks - 1
    /\ IF sqlite_buffer = <<>>
       THEN UNCHANGED <<sqlite_buffer, saving>>
       ELSE /\ sqlite_buffer' = BufferAfterCapture(sqlite_buffer)
            /\ saving' = saving \cup {BufferCopy(sqlite_buffer)}
    /\ UNCHANGED <<st, regVars, active_connections, bc, fwdTarget, latest_data, total,
                   db, failed, resp, relayVars, inbox>>

\* ------------------------------------------------------------------ db.py
\* executemany and commit succeed: one row per event of the batch.
SaveCommit(b) ==
    /\ b \in saving
    /\ saving' = saving \ {b}
    /\ db' = db \o b
    /\ UNCHANGED <<st, regVars, active_connections, bc, fwdTarget, bufVars, failed,
                   resp, relayVars, inbox>>

\* (mutant) a failed batch is put back in front of the queue
BufferRequeued(buf, b) == b \o buf

\* What a failed write leaves in sqlite_buffer: the except clause only prints.
BufferAfterFailure(buf, b) == buf

\* connect, executemany or commit raises: caught and printed in
\* save_sensor_data_batch; nothing was committed.
SaveFail(b) ==
    /\ b \in saving
    /\ saving' = saving \ {b}
    /\ failed' = failed \cup {b}
    /\ sqlite_buffer' = BufferAfterFailure(sqlite_buffer, b)
    /\ UNCHANGED <<st, regVars, active_connections, bc, fwdTarget, latest_data, total,
                   flush_tasks, db, resp, relayVars, inbox>>

\* ------------------------------------------------------------------ api.py
Counts == (0 - 1)..MaxCount

\* GET /data/latest?count=n
get_latest_data_route(n) ==
    /\ n \in Counts
    /\ resp' = [count |-> n, data |-> get_latest_data(n)]
    /\ UNCHANGED <<st, regVars, active_connections, bc, fwdTarget, bufVars, dbVars,
                   relayVars, inbox>>

\* ------------------------------------------------------------ behaviours
\* The steps of one /ws session.
WsSession(c, cap) ==
    \/ WsConnect(c)
    \/ WsConnectFail(c)
    \/ \E f \in TextFrames : WsText(c, f, cap)
    \/ \E f \in BinaryFrames : WsBinary(c, f, cap)
    \/ WsForwardDone(c, cap)
    \/ BroadcastStep(c)
    \/ WsDisconnect(c)
    \/ WsReceiveError(c)
    \/ WsCancel(c)
    \/ WsFinally(c)

\* The steps of one /ws-dashboard session.
DashSession(d) ==
    \/ DashConnect(d)
    \/ DashConnectFail(d)
    \/ \E ok \in BOOLEAN : DashInitDone(d, ok)
    \/ DashText(d)
    \/ DashClose(d)

\* The steps of one /ws-microphone session.
MicSession(m, cap, fcap) ==
    \/ MicConnect(m)
    \/ MicConnectFail(m)
    \/ \E f \in BinaryFrames : MicBinary(m, f, cap, fcap)
    \/ MicForwardDone(m, cap)
    \/ \E f \in TextFrames : MicText(m, f, cap)
    \/ MicTextForwardDone(m)
    \/ MicTimeout(m)
    \/ \E ok \in BOOLEAN : MicProbeDone(m, ok)
    \/ MicDisconnect(m)
    \/ MicReceiveError(m)
    \/ MicFinally(m)

\* The steps of the heartbeat task of session c.
Heartbeat(c) ==
    \/ HbWake(c)
    \/ \E ok \in BOOLEAN : HbSent(c, ok)

\* The steps of the broadcast tasks.
BroadcastTasks ==
    \/ \E t \in tasks : TaskStart(t)
    \/ \E t \in tasks : TaskStep(t)

\* The flush tasks and their writes.
Flushing ==
    \/ FlushRun
    \/ \E b \in saving : SaveCommit(b)
    \/ \E b \in saving : SaveFail(b)

\* The sessions the smaller behaviours run: one /ws socket, one dashboard,
\* one /ws-microphone socket.
Producers == {1}
Watchers == {NumWs + 1}
Microphones == {NumWs + NumDash + 1}

\* The socket endpoints and the write-behind tasks: every /ws session and
\* one dashboard, every interleaving.
Next ==
    \/ \E c \in WsConns : WsSession(c, MaxEvents)
    \/ \E d \in Watchers : DashSession(d)
    \/ Flushing

Spec == Init /\ [][Next]_vars

\* The telemetry buffer and its write-behind tasks, fed by the sessions of one
\* /ws socket and watched by one dashboard (add_sensor_data runs without an
\* await, so the calls of several sessions are a sequence of calls as those
\* of one session are).

NextBuf ==
    \/ \E c \in Producers : WsSession(c, MaxBufEvents)
    \/ \E d \in Watchers : DashSession(d)
    \/ Flushing

SpecBuf == Init /\ [][NextBuf]_vars

\* The same with the scheduling asyncio gives: a created task is run, and a
\* write that was begun ends.  No client is bound to send anything.
LiveBuf ==
    /\ SpecBuf
    /\ WF_vars(FlushRun)
    /\ WF_vars(\E b \in saving : SaveCommit(b) \/ SaveFail(b))

\* The recent-event buffer and its HTTP reader.
NextApi ==
    \/ \E c \in Producers : WsSession(c, MaxBufEvents)
    \/ \E d \in Watchers : DashSession(d)
    \/ \E n \in Counts : get_latest_data_route(n)

SpecApi == Init /\ [][NextApi]_vars

\* The relay: one /ws-microphone session, one /ws session (the device, and a
\* source of frames itself), one dashboard, and the broadcast tasks.
NextRelay ==
    \/ \E m \in Microphones : MicSession(m, MaxEvents, MaxFrames)
    \/ \E c \in Producers : WsSession(c, MaxEvents)
    \/ \E d \in Watchers : DashSession(d)
    \/ BroadcastTasks

SpecRelay == Init /\ [][NextRelay]_vars

\* The relay with its timers: the heartbeat tasks of the two sessions that
\* have one, and the read timeout of /ws-microphone.
NextAlive ==
    \/ NextRelay
    \/ \E c \in Producers \cup Microphones : Heartbeat(c)

SpecAlive == Init /\ [][NextAlive]_vars

\* The relay with the scheduling asyncio gives: a task that was created is
\* run, and a handler that left its loop runs its finally block.  No send is
\* bound to end (its peer may not read), and no client to send anything.
LiveRelay ==
    /\ SpecRelay
    /\ WF_vars(\E t \in tasks : TaskStart(t))
    /\ WF_vars(\E c \in Producers : WsFinally(c))
    /\ WF_vars(\E m \in Microphones : MicFinally(m))

\* The relay, with the messages its dashboard is sent recorded.
SpecWatch == InitWatch /\ [][NextRelay]_vars

\* The fan-out: one /ws session and every dashboard, with the messages the
\* dashboards are sent recorded.
NextFan ==
    \/ \E c \in Producers : WsSession(c, MaxEvents)
    \/ \E d \in DashConns : DashSession(d)

SpecFan == InitWatch /\ [][NextFan]_vars

\* ================================================================ claims
Open(c) == st[c] \notin {"idle", "closed"}

\* ---- C1 ----------------------------------------------------------------
\* a was registered as the device, b was registered after it and is the
\* socket registered last, and both sessions are open.
Superseded(a, b) ==
    /\ a # b
    /\ a \in everReg
    /\ lastReg = b
    /\ Open(a)
    /\ Open(b)

\* C1 (as claimed): once b is classified Device after a, and while both stay
\* open and no later socket is registered, the device slot holds b and every
\* forward that begins is sent to b, whatever the other sessions do.
C1_LatestDeviceKeepsSlot ==
    [][\A a, b \in WsConns :
          Superseded(a, b)' =>
             /\ arduino_connection' = b
             /\ \A c \in WsConns :
                   (Superseded(a, b) /\ st[c] # "fwd" /\ st'[c] = "fwd")
                      => fwdTarget'[c] = b]_vars

\* ---- C2 ----------------------------------------------------------------
\* C2 (as claimed): the device slot and the dashboard set name no socket
\* whose session has ended.
C2_NoLeakedRegistration ==
    /\ arduino_connection # None => st[arduino_connection] # "closed"
    /\ \A d \in active_connections : st[d] # "closed"

\* ---- C3 ----------------------------------------------------------------
\* C3 (as claimed): a role, once set, never changes.
C3_RoleSetOnce ==
    [][\A c \in WsConns :
          is_arduino_connection[c] # "None"
             => is_arduino_connection'[c] = is_arduino_connection[c]]_vars

\* ---- C4 ----------------------------------------------------------------
\* What the claim says of a classifying frame f handled by session c.
ClassifiedAsClaimed(c, f) ==
    IF f.source = AudioTag
    THEN /\ is_arduino_connection'[c] = "False"
         /\ arduino_connection' = arduino_connection
    ELSE /\ is_arduino_connection'[c] = "True"
         /\ arduino_connection' = c

C5_FlushCapturesAll ==
    [][FlushRun =>
          IF sqlite_buffer = <<>>
          THEN sqlite_buffer' = <<>> /\ saving' = saving
          ELSE /\ sqlite_buffer' = <<>>
               /\ sqlite_buffer \notin saving
               /\ saving' = saving \cup {sqlite_buffer}]_vars

\* A flush captured two events or more and the queue is empty.
C5_Witness == sqlite_buffer = <<>> /\ \E b \in saving : Len(b) >= 2

\* ---- C6 ----------------------------------------------------------------
\* The places of the batches' events: <<batch, index>>.
Slots(bs) == UNION {{<<b, k>> : k \in DOMAIN b} : b \in bs}

\* How many times the event of receipt number i is held by the queue, the
\* writes in flight, the table and the discarded batches.
Occurrences(i) ==
    Cardinality({k \in DOMAIN sqlite_buffer : sqlite_buffer[k].id = i})
    + Cardinality({p \in Slots(saving) : p[1][p[2]].id = i})
    + Cardinality({k \in DOMAIN db : db[k].id = i})
    + Cardinality({p \in Slots(failed) : p[1][p[2]].id = i})

\* C6: under every interleaving of add_sensor_data with the flush tasks,
\* every event is in exactly one place (the queue, one batch being written,
\* the table once, or one discarded batch), and the events added after a
\* capture are in the queue, behind every captured event.
C6_NoEventTwiceOrLost ==
    /\ \A i \in 1..total : Occurrences(i) = 1
    /\ \A k \in DOMAIN sqlite_buffer :
          \A p \in Slots(saving) : p[1][p[2]].id < sqlite_buffer[k].id

\* A write is in flight, newer events are in the queue, and the flush task
\* of a second threshold crossing is waiting to run.
C6_Witness == saving # {} /\ sqlite_buffer # <<>> /\ flush_tasks >= 1

\* ---- C7 ----------------------------------------------------------------
\* C7 (as claimed): every pending event is in the end captured by a flush.
C7_PendingEventuallyFlushed == (sqlite_buffer # <<>>) ~> (sqlite_buffer = <<>>)

\* ---- C8 ----------------------------------------------------------------
\* C8: the recent-event buffer is the last min(total, N) events added, in
\* receipt order, in every state (whatever was flushed meanwhile).
C8_LatestIsLastN ==
    LET m == Min(total, LATEST_DATA_MAX_SIZE)
    IN /\ Len(latest_data) = m
       /\ \A k \in 1..m : latest_data[k].id = total - m + k

\* Events were evicted, and a batch was written.
C8_Witness == total > LATEST_DATA_MAX_SIZE /\ db # <<>>

\* ---- C9 ----------------------------------------------------------------
\* The min(n, size) newest elements of lst, oldest first.
LastN(lst, n) == SubSeq(lst, Len(lst) - Min(n, Len(lst)) + 1, Len(lst))

\* C9 (as claimed): GET /data/latest?count=n with n >= 0 answers the
\* min(n, size) most recent events and changes neither buffer.
C9_LatestReturnsAtMostN ==
    [][\A n \in Counts :
          (n >= 0 /\ get_latest_data_route(n))
             => /\ resp'.data = LastN(latest_data, n)
                /\ UNCHANGED <<latest_data, sqlite_buffer>>]_vars

\* ---- C10 ---------------------------------------------------------------
\* C10: the events of a batch whose write failed are nowhere else (not in
\* the queue, not in a write in flight, not in the table), the failure
\* ends no session, and the queue holds exactly the events added since the
\* last capture.
C10_FailedBatchDiscarded ==
    /\ \A p \in Slots(failed) :
          LET e == p[1][p[2]]
          IN /\ \A k \in DOMAIN sqlite_buffer : sqlite_buffer[k] # e
             /\ \A k \in DOMAIN db : db[k] # e
             /\ \A q \in Slots(saving) : q[1][q[2]] # e
    /\ \A k \in DOMAIN sqlite_buffer :
          sqlite_buffer[k].id = total - Len(sqlite_buffer) + k

\* After a failed write, a later flush wrote the events added after it.
C10_Witness ==
    \E b \in failed : db # <<>> /\ db[1].id > b[Len(b)].id

\* ---- C11 ---------------------------------------------------------------
\* Session c leaves its call of send_binary_to_arduino in this step.
ForwardReturns(c) == st[c] = "fwd" /\ st'[c] # "fwd"

\* Session c takes a binary frame in while no device is registered, and
\* calls the forwarder with it.
ForwardsToNobody(c) ==
    /\ arduino_connection = None
    /\ \/ WsBinary(c, "audio", MaxBufEvents)
       \/ \E f \in BinaryFrames : MicBinary(c, f, MaxBufEvents, MaxStream)

\* C11: a call of the forwarder that finds a device ends either with that
\* device holding the very frame that came in and the result true, or with
\* nothing delivered and the result false; with no device the result is
\* false at once and no send is begun.  In every case the session goes on (no
\* error leaves the forwarder) and no frame is kept for a later send.
C11_ForwardExactOrDropped ==
    [][\A c \in Sources :
          /\ ForwardReturns(c) =>
                /\ \/ /\ forwarded' = "True"
                      /\ received' = [received EXCEPT ![fwdTarget[c]] = fwdData[c]]
                   \/ /\ forwarded' = "False"
                      /\ received' = received
                /\ st'[c] \in {"recv", "bcast"}
                /\ fwdTarget'[c] = None /\ fwdData'[c] = "none"
          /\ ForwardsToNobody(c) =>
                /\ forwarded' = "False"
                /\ received' = received
                /\ st'[c] \in {"recv", "bcast"}
                /\ fwdTarget'[c] = None /\ fwdData'[c] = "none"]_vars

\* The registered device got an audio frame of a /ws-microphone session,
\* and a later send to it failed: the forwarder returned false.
C11_Witness ==
    \E m \in MicConns, d \in WsConns :
        /\ received[d] = "audio"
        /\ arduino_connection = d
        /\ binary_count[m] >= 2
        /\ st[m] = "recv"
        /\ forwarded = "False"

\* ---- C12 ---------------------------------------------------------------
\* Session c takes in a binary frame shorter than the 8 bytes of a header.
ShortFrame(c) ==
    \/ WsBinary(c, "short", MaxBufEvents)
    \/ MicBinary(c, "short", MaxBufEvents, MaxStream)

\* C12 (as claimed): on /ws and on /ws-microphone a binary frame shorter
\* than 8 bytes begins no send to the device, adds no event, begins no
\* broadcast, and leaves the session receiving.
C12_ShortFrameDropped ==
    [][\A c \in Sources :
          ShortFrame(c) =>
             /\ fwdTarget'[c] = None
             /\ UNCHANGED <<received, latest_data, sqlite_buffer, total, tasks, bc>>
             /\ st'[c] = "recv"]_vars

\* ---- C13 ---------------------------------------------------------------
\* Session c takes in text frame f.
TakesText(c, f) == WsText(c, f, MaxBufEvents) \/ MicText(c, f, MaxBufEvents)

\* C13: a text frame that is not JSON changes neither buffer, nor the device
\* slot, the connection's role, the dashboard set; it begins no broadcast and
\* no forward, and the session is left receiving with its locals as they
\* were, so that its next frame is handled as if this one had not come.
C13_MalformedTextDropped ==
    [][\A c \in Sources, f \in TextFrames :
          (f.json = "bad" /\ TakesText(c, f)) =>
             /\ UNCHANGED <<latest_data, sqlite_buffer, total, flush_tasks,
                            arduino_connection, is_arduino_connection,
                            active_connections, bc, tasks, fwdTarget, received,
                            forwarded, binary_count>>
             /\ st'[c] = "recv"]_vars

\* The state a malformed frame leaves as it found it: a /ws session and a
\* /ws-microphone session both receiving, with events buffered, a device
\* registered and a dashboard listening.
C13_Witness ==
    \E c \in WsConns, m \in MicConns :
        /\ st[c] = "recv" /\ st[m] = "recv"
        /\ is_arduino_connection[c] = "True"
        /\ arduino_connection = c
        /\ sqlite_buffer # <<>>
        /\ active_connections # {}

\* ---- C14 ---------------------------------------------------------------
\* This step appends one event, the one of this receipt, to both buffers.
AppendedOnce ==
    /\ total' = total + 1
    /\ Len(sqlite_buffer') = Len(sqlite_buffer) + 1
    /\ sqlite_buffer'[Len(sqlite_buffer')].id = total'
    /\ sqlite_buffer'[Len(sqlite_buffer')].source \in {AudioTag, "arduino"}
    /\ latest_data'[Len(latest_data')] = sqlite_buffer'[Len(sqlite_buffer')]

\* This step of session c begins the broadcast of the event: in the handler
\* over the dashboards registered now (/ws), or as a task of its own
\* (/ws-microphone).
BroadcastBegun(c) ==
    IF c \in WsConns
    THEN active_connections # {} =>
            /\ st'[c] = "bcast"
            /\ bc'[c].start = active_connections
    ELSE \E t \in tasks' \ tasks : t.id = total' /\ t.owner = c

\* C14 (as claimed): every JSON object text frame taken in on /ws or on
\* /ws-microphone is stamped and appended once to both buffers and its
\* broadcast is begun, whatever its fields; and a broadcast ends only when a
\* send was tried to every dashboard that was registered when it began.
C14_JsonObjectStoredAndBroadcast ==
    [][/\ \A c \in Sources, f \in TextFrames :
             (f.json = "obj" /\ TakesText(c, f)) =>
                 AppendedOnce /\ BroadcastBegun(c)
       /\ \A c \in WsConns :
             (bc[c] # NoBc /\ bc'[c] = NoBc) => bc[c].start \subseteq bc[c].visited
       /\ \A t \in tasks :
             (\A u \in tasks' : u.id # t.id) => t.b.start \subseteq t.b.visited]_vars

\* ---- C15 ---------------------------------------------------------------
\* C15 (as claimed): a broadcast that is suspended in a send is not aborted
\* by a dashboard being added or removed meanwhile: when it leaves its send
\* it goes on to the next dashboard or returns to its caller, whose session
\* goes on receiving, and when it returns a send was tried to every
\* dashboard registered when it began.
C15_BroadcastOverSnapshot ==
    [][\A c \in WsConns :
          (st[c] = "bcast" /\ st'[c] # "bcast") =>
             /\ st'[c] = "recv"
             /\ bc[c].start \subseteq bc[c].visited]_vars

\* ---- C16 ---------------------------------------------------------------
\* Session c is suspended in a send to a consumer: the device (a forward) or
\* a dashboard (a broadcast it awaits).
AwaitsConsumer(c) == st[c] \in {"fwd", "fwdtext", "bcast"}

\* C16 (as claimed): a session that hands a frame to the device or to the
\* dashboards comes back to its receive loop whether or not the consumer's
\* send ever completes.
C16_ProducerNeverBlocked ==
    \A c \in Sources : AwaitsConsumer(c) ~> ~AwaitsConsumer(c)

\* ---- C17 ---------------------------------------------------------------
\* C17: the expiry of the bounded read wait of /ws-microphone closes
\* nothing: it begins one heartbeat send to that connection and changes
\* nothing else; when that send returns the session is receiving again, and
\* the session leaves a probe for its finally block only when the probe's
\* send raised.  (/ws and /ws-dashboard read without a bound: there is no
\* expiry, and idling ends no session.)
C17_IdleProbesNotCloses ==
    [][\A m \in MicConns :
          /\ MicTimeout(m) =>
                /\ st' = [st EXCEPT ![m] = "probe"]
                /\ UNCHANGED <<hb, active_connections, arduino_connection, tasks>>
          /\ MicProbeDone(m, TRUE) => st'[m] = "recv"
          /\ (st[m] = "probe" /\ st'[m] # "probe") =>
                \/ st'[m] = "recv"
                \/ st'[m] = "closing" /\ MicProbeDone(m, FALSE)]_vars

\* An idle /ws-microphone session is being probed while its heartbeat task
\* sleeps, after an earlier frame of it was forwarded.
C17_Witness ==
    \E m \in MicConns :
        /\ st[m] = "probe"
        /\ hb[m] = "sleep"
        /\ binary_count[m] > 0

\* ---- C18 ---------------------------------------------------------------
\* The heartbeat task of c is alive: asleep between two sends, or sending.
Beating(c) == hb[c] \in {"sleep", "send"}

\* C18 (as claimed): every accepted connection, of whatever endpoint, has a
\* live heartbeat task for as long as its session is open.
C18_EverySessionHasHeartbeat == \A c \in Conns : Open(c) => Beating(c)

\* ---- C19 ---------------------------------------------------------------
\* C19 (as claimed): once a session is closed, its heartbeat task has ended
\* and no task it created is left to run.
C19_NoTaskOutlivesSession ==
    \A c \in Conns :
        st[c] = "closed" =>
            /\ ~Beating(c)
            /\ \A t \in tasks : t.owner # c

\* ---- C20 ---------------------------------------------------------------
\* Session c takes in a valid type-0x01 binary frame.
TakesAudio(c) ==
    \/ WsBinary(c, "audio", MaxBufEvents)
    \/ MicBinary(c, "audio", MaxBufEvents, MaxStream)

\* Session c makes the summary event of a binary frame in this step.
MakesSummary(c) ==
    /\ total' = total + 1
    /\ \/ \E f \in BinaryFrames : WsBinary(c, f, MaxBufEvents)
       \/ WsForwardDone(c, MaxBufEvents)
       \/ \E f \in BinaryFrames : MicBinary(c, f, MaxBufEvents, MaxStream)
       \/ MicForwardDone(c, MaxBufEvents)

\* C20 (as claimed): every valid audio frame is handed to the forwarder, and
\* summary events are made of fewer frames than a session takes in: a
\* session that makes one has taken in an audio frame of which it made none
\* (or its stream was not one of valid audio frames only).
C20_SummariesSampled ==
    [][\A c \in Sources :
          /\ (TakesAudio(c) /\ arduino_connection # None) =>
                /\ st'[c] = "fwd"
                /\ fwdTarget'[c] = arduino_connection
                /\ fwdData'[c] = "audio"
          /\ (TakesAudio(c) /\ arduino_connection = None) => forwarded' = "False"
          /\ MakesSummary(c) =>
                \/ unsampled[c]
                \/ c \in MicConns /\ miscounted[c]]_vars

\* ---- C22 ---------------------------------------------------------------
\* C22: a call of add_sensor_data that leaves the pending queue at or above
\* SQLITE_BUFFER_SIZE creates one flush task and returns without running it
\* (no write is begun in the call, the queue keeps the event, the caller is
\* not left waiting); a flush task that runs captures the whole queue; and
\* the queue does not stay at or above the size for ever.
C22_ThresholdTriggersFlush ==
    /\ [][(total' = total + 1 /\ Len(sqlite_buffer') >= SQLITE_BUFFER_SIZE) =>
              /\ flush_tasks' = flush_tasks + 1
              /\ UNCHANGED <<saving, db>>
              /\ Len(sqlite_buffer') = Len(sqlite_buffer) + 1
              /\ \A c \in Producers : st'[c] \in {"recv", "bcast"}]_vars
    /\ [][FlushRun => sqlite_buffer' = <<>>]_vars
    /\ (Len(sqlite_buffer) >= SQLITE_BUFFER_SIZE)
          ~> (Len(sqlite_buffer) < SQLITE_BUFFER_SIZE)

\* The caller went on adding while two flush tasks wait to run: the queue is
\* over the size.
C22_Witness == Len(sqlite_buffer) > SQLITE_BUFFER_SIZE /\ flush_tasks >= 2

\* ---- C25 ---------------------------------------------------------------
\* The session of c ends in this step, by whatever path.
Terminates(c) == st[c] # "closed" /\ st'[c] = "closed"

\* C25 (as claimed): a session that ends while the device slot holds another
\* connection, or none, leaves the slot as it is.
C25_ExitKeepsOthersSlot ==
    [][\A c \in Conns :
          (Terminates(c) /\ arduino_connection # c)
             => arduino_connection' = arduino_connection]_vars

\* ---- C26 ---------------------------------------------------------------
\* Session c takes in a frame, text or binary, in this step.
TakesFrame(c) ==
    \/ \E f \in TextFrames : TakesText(c, f)
    \/ \E f \in BinaryFrames : WsBinary(c, f, MaxBufEvents)
    \/ \E f \in BinaryFrames : MicBinary(c, f, MaxBufEvents, MaxStream)

\* C26 (as claimed): whatever a frame holds, the step that takes it in
\* leaves the session inside its receive loop, and leaves the device slot
\* holding what it held unless the frame registers its own connection.
C26_NoFrameEndsSession ==
    [][\A c \in Sources :
          TakesFrame(c) =>
             /\ st'[c] \notin {"closing", "closing_exc", "closed"}
             /\ arduino_connection' \in {arduino_connection, c}]_vars

\* ---- C29 ---------------------------------------------------------------
\* Connection c is put in the device slot in this step.
Placed(c) ==
    \/ arduino_connection' = c /\ arduino_connection # c
    \/ c \in everReg' \ everReg
    \/ lastReg' = c /\ lastReg # c

\* C29: no step puts a /ws-microphone connection in the device slot, and a
\* frame taken in on /ws-microphone leaves the slot alone; no step puts in
\* the slot a /ws connection that is classified AudioSource.
C29_AudioSourceNeverRegistered ==
    [][/\ \A m \in MicConns :
             /\ ~Placed(m)
             /\ TakesFrame(m) => UNCHANGED <<arduino_connection, everReg, lastReg>>
       /\ \A c \in WsConns :
             is_arduino_connection[c] = "False" => ~Placed(c)]_vars

\* A /ws connection classified AudioSource sent a later frame tagged as the
\* device's (its event is stored) and was never registered; a /ws-microphone
\* session has sent binary frames; the slot is empty.
C29_Witness ==
    \E c \in WsConns, m \in MicConns :
        /\ is_arduino_connection[c] = "False"
        /\ everReg = {}
        /\ arduino_connection = None
        /\ \E k \in DOMAIN latest_data : latest_data[k].source = "arduino"
        /\ binary_count[m] > 0

UpdatesOf(d, c) ==
    {k \in DOMAIN inbox[d] : inbox[d][k].type = "update" /\ inbox[d][k].from = c}

Bootstraps(d) == {k \in DOMAIN inbox[d] : inbox[d][k].type = "initial_data"}

\* C23 (as claimed): the connect of a dashboard adds it to the dashboard set
\* and sends it, before anything else, one initial_data message whose data
\* is the min(N, size) newest events of the recent-event buffer, oldest
\* first, whatever the buffer holds; and it is sent no second one.
C23_BootstrapOnConnect ==
    [][\A d \in DOMAIN inbox :
          /\ DashConnect(d) =>
                /\ d \in active_connections'
                /\ inbox'[d] =
                      <<[type |-> "initial_data", from |-> None,
                         data |-> Ids(LastN(latest_data,
                                            DASHBOARD_INITIAL_DATA_COUNT))]>>
          /\ Cardinality(Bootstraps(d)') <= 1]_vars


\* C23 (amended): the connect of a dashboard adds it to the dashboard set;
\* when the recent-event buffer is not empty it sends the dashboard, before
\* anything else, one initial_data message whose data is the min(N, size)
\* newest events, oldest first, and when the buffer is empty it sends no
\* initial_data message; no dashboard is sent a second one.
C23_BootstrapWhenNonEmpty ==
    [][\A d \in DOMAIN inbox :
          /\ DashConnect(d) =>
                /\ d \in active_connections'
                /\ inbox'[d] =
                      IF latest_data = <<>> THEN <<>>
                      ELSE <<[type |-> "initial_data", from |-> None,
                              data |-> Ids(LastN(latest_data,
                                                 DASHBOARD_INITIAL_DATA_COUNT))]>>
          /\ Cardinality(Bootstraps(d)') <= 1]_vars

\* A registered dashboard was sent an initial_data message that leaves out
\* the oldest event of the buffer, after another dashboard that connected to
\* an empty buffer was sent none.
C23_Witness ==
    \E d, e \in DOMAIN inbox :
        /\ {d, e} \subseteq active_connections
        /\ inbox[d] # <<>>
        /\ inbox[d][1].type = "initial_data"
        /\ inbox[d][1].data[1] > 1
        /\ Bootstraps(e) = {}

\* ---- C27 ---------------------------------------------------------------
\* A send of the broadcast that session c runs has failed, or the one it is
\* suspended in can only fail (the dashboard's session is over).
SendFailed(c) == bc[c].disconnected # {} \/ ~CanSucceed(bc[c].cur)

\* C27 (as claimed): a broadcast in which a send failed ends with its
\* session receiving again (the failure is not propagated), after a send was
\* tried to every dashboard registered when it began; the dashboards whose
\* send failed are then out of the dashboard set, and those whose send
\* succeeded are still in it.
C27_FailedDashboardDropped ==
    [][\A c \in WsConns :
          (st[c] = "bcast" /\ st'[c] # "bcast" /\ SendFailed(c)) =>
             /\ st'[c] = "recv"
             /\ bc[c].start \subseteq bc[c].visited
             /\ bc[c].disconnected \cap active_connections' = {}
             /\ ~CanSucceed(bc[c].cur) => bc[c].cur \notin active_connections'
             /\ (active_connections \cap bc[c].visited)
                   \ (bc[c].disconnected \cup {bc[c].cur})
                     \subseteq active_connections']_vars

\* ---- C28 ---------------------------------------------------------------
\* The receipt numbers of the events dashboard d was sent, in its bootstrap
\* or in an update.
Seen(d) ==
    UNION {{inbox[d][k].data[j] : j \in DOMAIN inbox[d][k].data} :
              k \in DOMAIN inbox[d]}

\* The newest event the buffer held when d was registered: the last one of
\* its bootstrap, or none when it connected to an empty buffer.
HeldAtConnect(d) ==
    IF Bootstraps(d) # {}
    THEN inbox[d][1].data[Len(inbox[d][1].data)]
    ELSE 0

\* The events whose broadcast is still under way.
InFlight == {bc[c].msg : c \in {p \in WsConns : st[p] = "bcast"}}

\* The events a text frame of /ws appended after d was registered and whose
\* broadcast is over.  An event that is not audio-tagged was built from a
\* text frame; a binary frame's event always is.
Owed(d) ==
    ({sqlite_buffer[k].id :
         k \in {j \in DOMAIN sqlite_buffer : sqlite_buffer[j].source # AudioTag}}
       \cap ((HeldAtConnect(d) + 1) .. total)) \ InFlight

\* C28 (as claimed): a dashboard that is registered and open was sent, in
\* its bootstrap or in an update, every event appended since it was
\* registered, once the broadcast of that event is over.
C28_NoMissedEvent ==
    \A d \in DOMAIN inbox :
        (d \in active_connections /\ st[d] \in {"init", "recv"}) =>
            Owed(d) \subseteq Seen(d)

====
